---- MODULE Spec2Model ----
(***************************************************************************)
(* Model of the network performance test scripts                           *)
(*   src/performance_test.py          (live ping, post-test ping)          *)
(*   src/performance_test.2.2.bak.py  (the v2.2 script kept beside it)     *)
(* Captured tool output is text: TLA+ strings, read character by           *)
(* character with Len and SubSeq, so that the scripts' substring tests and *)
(* regular expressions are computed the way Python computes them.          *)
(***************************************************************************)
EXTENDS Integers, Sequences, FiniteSets, TLC

(***************************************************************************)
(* Text primitives                                                         *)
(***************************************************************************)
Digits == {"0", "1", "2", "3", "4", "5", "6", "7", "8", "9"}

Letters ==
    {"a", "b", "c", "d", "e", "f", "g", "h", "i", "j", "k", "l", "m",
     "n", "o", "p", "q", "r", "s", "t", "u", "v", "w", "x", "y", "z",
     "A", "B", "C", "D", "E", "F", "G", "H", "I", "J", "K", "L", "M",
     "N", "O", "P", "Q", "R", "S", "T", "U", "V", "W", "X", "Y", "Z"}

\* the character of s at position i, "" outside s
CharAt(s, i) == IF i >= 1 /\ i <= Len(s) THEN SubSeq(s, i, i) ELSE ""

\* \d
IsDigit(c) == c \in Digits

\* [\d\.]
IsDigitOrDot(c) == c \in Digits \cup {"."}

\* \w
IsWord(c) == c \in Digits \cup Letters \cup {"_"}

\* \s
IsSpace(c) == c \in {" ", "\t", "\n", "\r"}

MinOf(S) == CHOOSE x \in S : \A y \in S : x <= y

MaxOf(S) == CHOOSE x \in S : \A y \in S : x >= y

\* s has the literal p at position i
StartsWithAt(s, i, p) ==
    /\ i >= 1
    /\ i + Len(p) - 1 <= Len(s)
    /\ SubSeq(s, i, i + Len(p) - 1) = p

\* Python's  p in s
Contains(s, p) == \E i \in 1..Len(s) : StartsWithAt(s, i, p)

\* the position after the longest run of digits that starts at i
RECURSIVE DigitRunEnd(_, _)
DigitRunEnd(s, i) == IF IsDigit(CharAt(s, i)) THEN DigitRunEnd(s, i + 1) ELSE i

\* the position after the longest run of [\d\.] that starts at i
RECURSIVE ClassRunEnd(_, _)
ClassRunEnd(s, i) == IF IsDigitOrDot(CharAt(s, i)) THEN ClassRunEnd(s, i + 1) ELSE i

\* the position after the longest run of \s that starts at i
RECURSIVE SpaceRunEnd(_, _)
SpaceRunEnd(s, i) == IF IsSpace(CharAt(s, i)) THEN SpaceRunEnd(s, i + 1) ELSE i

\* the position of the line break that ends the line holding position i
RECURSIVE LineEnd(_, _)
LineEnd(s, i) == IF i > Len(s) \/ CharAt(s, i) = "\n" THEN i ELSE LineEnd(s, i + 1)

\* str.splitlines(), for text whose only line break is \n
RECURSIVE SplitLines(_)
SplitLines(s) ==
    IF s = "" THEN << >>
    ELSE LET e == LineEnd(s, 1)
         IN  <<SubSeq(s, 1, e - 1)>> \o
             (IF e >= Len(s) THEN << >> ELSE SplitLines(SubSeq(s, e + 1, Len(s))))

\* the position of the first space of s at or after i, Len(s) + 1 if none
RECURSIVE SpaceFrom(_, _)
SpaceFrom(s, i) == IF i > Len(s) \/ CharAt(s, i) = " " THEN i ELSE SpaceFrom(s, i + 1)

\* the pieces of s from position i on
RECURSIVE SplitFrom(_, _)
SplitFrom(s, i) ==
    LET e == SpaceFrom(s, i)
    IN  <<SubSeq(s, i, e - 1)>> \o (IF e > Len(s) THEN << >> ELSE SplitFrom(s, e + 1))

\* str.split(" "): the pieces between single spaces
SplitSpaces(s) == SplitFrom(s, 1)

\* str.strip()
Strip(s) ==
    LET ink == {j \in 1..Len(s) : ~IsSpace(CharAt(s, j))}
    IN  IF ink = {} THEN "" ELSE SubSeq(s, MinOf(ink), MaxOf(ink))

(***************************************************************************)
(* Regular expressions of the scripts. Each XxxAt(s, i) is the position    *)
(* after a match that starts at i, or 0; re.search takes the leftmost i.   *)
(* NoMatch stands for Python's None.                                       *)
(***************************************************************************)
NoMatch == [found |-> FALSE, group |-> ""]

Match(g) == [found |-> TRUE, group |-> g]

\* (\d+)% packet loss
PacketLossAt(s, i) ==
    IF ~IsDigit(CharAt(s, i)) THEN 0
    ELSE LET j == DigitRunEnd(s, i)
         IN  IF StartsWithAt(s, j, "% packet loss") THEN j ELSE 0

SearchPacketLoss(s) ==
    LET at == {i \in 1..Len(s) : PacketLossAt(s, i) # 0}
    IN  IF at = {} THEN NoMatch
        ELSE LET i == MinOf(at) IN Match(SubSeq(s, i, PacketLossAt(s, i) - 1))

\* [\d\.]+/([\d\.]+)/[\d\.]+/[\d\.]+ at position i: the bounds of group 1, or <<0, 0>>
QuadAt(s, i) ==
    LET a == ClassRunEnd(s, i)
        b == ClassRunEnd(s, a + 1)
        c == ClassRunEnd(s, b + 1)
    IN  IF /\ a > i /\ CharAt(s, a) = "/"
           /\ b > a + 1 /\ CharAt(s, b) = "/"
           /\ c > b + 1 /\ CharAt(s, c) = "/"
           /\ IsDigitOrDot(CharAt(s, c + 1))
        THEN <<a + 1, b - 1>>
        ELSE <<0, 0>>

\* rtt min/avg/max/mdev = [\d\.]+/([\d\.]+)/[\d\.]+/[\d\.]+
RttLabel == "rtt min/avg/max/mdev = "

SearchRttLinux(s) ==
    LET at == {i \in 1..Len(s) :
                  /\ StartsWithAt(s, i, RttLabel)
                  /\ QuadAt(s, i + Len(RttLabel)) # <<0, 0>>}
    IN  IF at = {} THEN NoMatch
        ELSE LET q == QuadAt(s, MinOf(at) + Len(RttLabel))
             IN  Match(SubSeq(s, q[1], q[2]))

\* (?:rtt|round-trip).* = [\d\.]+/([\d\.]+)/[\d\.]+/[\d\.]+
\* .* is greedy and stays on one line: of the " = " that a quadruple follows,
\* the last one on the line of the label is taken
MacTailsAt(s, i) ==
    LET skip == IF StartsWithAt(s, i, "rtt") THEN 3
                ELSE IF StartsWithAt(s, i, "round-trip") THEN 10 ELSE 0
    IN  IF skip = 0 THEN {}
        ELSE {p \in (i + skip)..(LineEnd(s, i + skip) - 1) :
                 StartsWithAt(s, p, " = ") /\ QuadAt(s, p + 3) # <<0, 0>>}

SearchRttMac(s) ==
    LET at == {i \in 1..Len(s) : MacTailsAt(s, i) # {}}
    IN  IF at = {} THEN NoMatch
        ELSE LET q == QuadAt(s, MaxOf(MacTailsAt(s, MinOf(at))) + 3)
             IN  Match(SubSeq(s, q[1], q[2]))

\* \d+(?:\.\d+)? at position i: the position after it, or 0
NumberEnd(s, i) ==
    IF ~IsDigit(CharAt(s, i)) THEN 0
    ELSE LET j == DigitRunEnd(s, i)
         IN  IF CharAt(s, j) = "." /\ IsDigit(CharAt(s, j + 1))
             THEN DigitRunEnd(s, j + 1)
             ELSE j

\* (\d+(?:\.\d+)? \wbits/sec)
BandwidthAt(s, i) ==
    LET k == NumberEnd(s, i)
    IN  IF /\ k # 0
           /\ CharAt(s, k) = " "
           /\ IsWord(CharAt(s, k + 1))
           /\ StartsWithAt(s, k + 2, "bits/sec")
        THEN k + 10
        ELSE 0

SearchBandwidth(s) ==
    LET at == {i \in 1..Len(s) : BandwidthAt(s, i) # 0}
    IN  IF at = {} THEN NoMatch
        ELSE LET i == MinOf(at) IN Match(SubSeq(s, i, BandwidthAt(s, i) - 1))

\* \d+\.\d+ at position i: the position after it, or 0
DecimalEnd(s, i) ==
    IF ~IsDigit(CharAt(s, i)) THEN 0
    ELSE LET j == DigitRunEnd(s, i)
         IN  IF CharAt(s, j) = "." /\ IsDigit(CharAt(s, j + 1))
             THEN DigitRunEnd(s, j + 1)
             ELSE 0

\* (\d+\.\d+) ms                                   performance_test.py
JitterAt(s, i) ==
    LET k == DecimalEnd(s, i)
    IN  IF k # 0 /\ StartsWithAt(s, k, " ms") THEN k ELSE 0

SearchJitter(s) ==
    LET at == {i \in 1..Len(s) : JitterAt(s, i) # 0}
    IN  IF at = {} THEN NoMatch
        ELSE LET i == MinOf(at) IN Match(SubSeq(s, i, JitterAt(s, i) - 1))

\* (\d+\.\d+)\s+ms\s+\d+/                          performance_test.2.2.bak.py
JitterBakAt(s, i) ==
    LET k == DecimalEnd(s, i)
        w == SpaceRunEnd(s, k)
        x == SpaceRunEnd(s, w + 2)
    IN  IF /\ k # 0
           /\ w > k
           /\ StartsWithAt(s, w, "ms")
           /\ x > w + 2
           /\ IsDigit(CharAt(s, x))
           /\ CharAt(s, DigitRunEnd(s, x)) = "/"
        THEN k
        ELSE 0

SearchJitterBak(s) ==
    LET at == {i \in 1..Len(s) : JitterBakAt(s, i) # 0}
    IN  IF at = {} THEN NoMatch
        ELSE LET i == MinOf(at) IN Match(SubSeq(s, i, JitterBakAt(s, i) - 1))

\* \((\d+(?:\.\d+)?)%\)                            performance_test.py
UdpLossAt(s, i) ==
    LET k == NumberEnd(s, i + 1)
    IN  IF CharAt(s, i) = "(" /\ k # 0 /\ StartsWithAt(s, k, "%)") THEN k ELSE 0

SearchUdpLoss(s) ==
    LET at == {i \in 1..Len(s) : UdpLossAt(s, i) # 0}
    IN  IF at = {} THEN NoMatch
        ELSE LET i == MinOf(at) IN Match(SubSeq(s, i + 1, UdpLossAt(s, i) - 1))

\* \(([\d\.]+)%\)                                  performance_test.2.2.bak.py
UdpLossBakAt(s, i) ==
    LET k == ClassRunEnd(s, i + 1)
    IN  IF CharAt(s, i) = "(" /\ k > i + 1 /\ StartsWithAt(s, k, "%)") THEN k ELSE 0

SearchUdpLossBak(s) ==
    LET at == {i \in 1..Len(s) : UdpLossBakAt(s, i) # 0}
    IN  IF at = {} THEN NoMatch
        ELSE LET i == MinOf(at) IN Match(SubSeq(s, i + 1, UdpLossBakAt(s, i) - 1))

(***************************************************************************)
(* Extraction: the scripts' parsing code, as functions of the captured     *)
(* text. Sentinel is the "-" every metric starts from.                      *)
(***************************************************************************)
Sentinel == "-"

\* os_mode.capitalize() on the two values --os-mode and detection can give
Capitalize(s) == IF s = "MacOS" THEN "Macos" ELSE s

\* parse_ping with the platform test dropped: the Linux rule for every tag
ParsePingOneRule(text, os) ==
    LET loss_match == SearchPacketLoss(text)
        match == SearchRttLinux(text)
    IN  <<IF match.found THEN match.group \o "ms" ELSE Sentinel,
          IF loss_match.found THEN loss_match.group \o "%" ELSE Sentinel>>

\* parse_ping as one monolithic parse: the loss is looked for only once the
\* latency was found
ParsePingMonolithic(text, os) ==
    LET loss_match == SearchPacketLoss(text)
        match == IF os = "Linux" THEN SearchRttLinux(text) ELSE SearchRttMac(text)
    IN  IF match.found
        THEN <<match.group \o "ms", IF loss_match.found THEN loss_match.group \o "%" ELSE Sentinel>>
        ELSE <<Sentinel, Sentinel>>

\* parse_ping of performance_test.py, on the text of the file: <<avg_latency, loss>>
ParsePing(text, os) ==
    LET loss_match == SearchPacketLoss(text)
        match == IF os = "Linux" THEN SearchRttLinux(text) ELSE SearchRttMac(text)
    IN  <<IF match.found THEN match.group \o "ms" ELSE Sentinel,
          IF loss_match.found THEN loss_match.group \o "%" ELSE Sentinel>>

\* the latency and loss parsing of performance_test.2.2.bak.py: <<latency_avg, packet_loss>>
ParsePingBak(ping_output, os) ==
    LET match == IF os = "Linux" THEN SearchRttLinux(ping_output)
                 ELSE IF os = "MacOS" THEN SearchRttMac(ping_output)
                 ELSE NoMatch
        ploss_match == SearchPacketLoss(ping_output)
    IN  <<IF match.found THEN match.group \o "ms" ELSE Sentinel,
          IF ploss_match.found THEN ploss_match.group \o "%" ELSE Sentinel>>

\* the line test both scripts use:  label in line and "bits/sec" in line
IsSummaryLine(line, label) == Contains(line, label) /\ Contains(line, "bits/sec")

\* Parse UDP keeping the jitter as printed, unit apart: "0.45 ms"
ParseUdpSpacedJitter(udp_output) ==
    LET lines == SplitLines(udp_output)
        hits == {i \in 1..Len(lines) : IsSummaryLine(lines[i], "receiver")}
    IN  IF hits = {} THEN <<Sentinel, Sentinel, Sentinel>>
        ELSE LET line == lines[MinOf(hits)]
                 udp_bw_match == SearchBandwidth(line)
                 jitter_match == SearchJitter(line)
                 loss_match == SearchUdpLoss(line)
             IN  <<IF udp_bw_match.found THEN udp_bw_match.group ELSE Sentinel,
                   IF jitter_match.found THEN jitter_match.group \o " ms" ELSE Sentinel,
                   IF loss_match.found THEN loss_match.group \o "%" ELSE Sentinel>>

\* Parse UDP looking for jitter and loss only once the bandwidth was found
ParseUdpNested(udp_output) ==
    LET lines == SplitLines(udp_output)
        hits == {i \in 1..Len(lines) : IsSummaryLine(lines[i], "receiver")}
    IN  IF hits = {} THEN <<Sentinel, Sentinel, Sentinel>>
        ELSE LET line == lines[MinOf(hits)]
                 udp_bw_match == SearchBandwidth(line)
                 jitter_match == SearchJitter(line)
                 loss_match == SearchUdpLoss(line)
             IN  IF udp_bw_match.found
                 THEN <<udp_bw_match.group,
                        IF jitter_match.found THEN jitter_match.group \o "ms" ELSE Sentinel,
                        IF loss_match.found THEN loss_match.group \o "%" ELSE Sentinel>>
                 ELSE <<Sentinel, Sentinel, Sentinel>>

\* Parse UDP of performance_test.py: <<udp_bw, udp_jitter, udp_loss>>.
\* The loop breaks on the first line that passes the test.
ParseUdp(udp_output) ==
    LET lines == SplitLines(udp_output)
        hits == {i \in 1..Len(lines) : IsSummaryLine(lines[i], "receiver")}
    IN  IF hits = {} THEN <<Sentinel, Sentinel, Sentinel>>
        ELSE LET line == lines[MinOf(hits)]
                 udp_bw_match == SearchBandwidth(line)
                 jitter_match == SearchJitter(line)
                 loss_match == SearchUdpLoss(line)
             IN  <<IF udp_bw_match.found THEN udp_bw_match.group ELSE Sentinel,
                   IF jitter_match.found THEN jitter_match.group \o "ms" ELSE Sentinel,
                   IF loss_match.found THEN loss_match.group \o "%" ELSE Sentinel>>

\* Parse TCP going on past receiver lines on which the bandwidth is not found:
\* the first valid match wins
ParseTcpFirstValid(tcp_output) ==
    LET lines == SplitLines(tcp_output)
        hits == {i \in 1..Len(lines) :
                    IsSummaryLine(lines[i], "receiver") /\ SearchBandwidth(lines[i]).found}
    IN  IF hits = {} THEN Sentinel
        ELSE SearchBandwidth(lines[MinOf(hits)]).group

\* Parse TCP of performance_test.py: tcp_bw
ParseTcp(tcp_output) ==
    LET lines == SplitLines(tcp_output)
        hits == {i \in 1..Len(lines) : IsSummaryLine(lines[i], "receiver")}
    IN  IF hits = {} THEN Sentinel
        ELSE LET match == SearchBandwidth(lines[MinOf(hits)])
             IN  IF match.found THEN match.group ELSE Sentinel

\* udp_line of performance_test.2.2.bak.py: the loop has no break, so the last
\* line that passes the test of the direction stays in udp_line
UdpLineBak(udp_output, dir) ==
    LET lines == SplitLines(udp_output)
        label == IF dir = "download" THEN "sender" ELSE "receiver"
        hits == {i \in 1..Len(lines) : IsSummaryLine(lines[i], label)}
    IN  IF hits = {} THEN "" ELSE Strip(lines[MaxOf(hits)])

\* <<udp_bw_result, udp_jitter, udp_ploss>> of performance_test.2.2.bak.py
ParseUdpBak(udp_output, dir) ==
    LET udp_line == UdpLineBak(udp_output, dir)
        udp_bw_match == SearchBandwidth(udp_line)
        udp_jitter_match == SearchJitterBak(udp_line)
        udp_loss_match == SearchUdpLossBak(udp_line)
    IN  IF udp_line = "" THEN <<Sentinel, Sentinel, Sentinel>>
        ELSE <<IF udp_bw_match.found THEN udp_bw_match.group ELSE Sentinel,
               IF udp_jitter_match.found THEN udp_jitter_match.group \o "ms" ELSE Sentinel,
               IF udp_loss_match.found THEN udp_loss_match.group \o "%" ELSE Sentinel>>

\* tcp_line of performance_test.2.2.bak.py: again the last line that passes
TcpLineBak(tcp_output) ==
    LET lines == SplitLines(tcp_output)
        hits == {i \in 1..Len(lines) : IsSummaryLine(lines[i], "receiver")}
    IN  IF hits = {} THEN "" ELSE Strip(lines[MaxOf(hits)])

\* tcp_bw_result of performance_test.2.2.bak.py
ParseTcpBak(tcp_output) ==
    LET tcp_line == TcpLineBak(tcp_output)
        tcp_bw_match == SearchBandwidth(tcp_line)
    IN  IF tcp_line # "" /\ tcp_bw_match.found THEN tcp_bw_match.group ELSE Sentinel

\* status of performance_test.py, from the stdout of  ping -c 3
ReachStatus(stdout) == IF Contains(stdout, "0% packet loss") THEN "OK" ELSE "FAIL"

\* ping_status of performance_test.2.2.bak.py, from the stdout of  ping -c 3
ReachStatusBak(stdout) ==
    IF Contains(stdout, "0% packet loss") \/ Contains(stdout, "1% packet loss")
    THEN "OK" ELSE "FAIL"

(***************************************************************************)
(* The invocation: arguments and the commands built from them              *)
(***************************************************************************)
V23 == "performance_test.py"

V22 == "performance_test.2.2.bak.py"

\* --duration (its default), --port (its default), the margin of the timeout
Duration == 60

Port == 5201

Margin == 30

Server == "10.0.0.1"

UdpBandwidth == "1000M"

\* datetime.now().strftime("%Y-%m-%d_%H-%M-%S") of the run
Timestamp == "2025-06-13_10-00-00"

\* str() of a list of strings, as the f-string of an error message prints it
RECURSIVE ReprItems(_)
ReprItems(cmd) ==
    IF Len(cmd) = 0 THEN ""
    ELSE "'" \o Head(cmd) \o "'" \o
         (IF Len(cmd) = 1 THEN "" ELSE ", " \o ReprItems(Tail(cmd)))

Repr(cmd) == "[" \o ReprItems(cmd) \o "]"

PingCmd == <<"ping", "-c", ToString(Duration \div 2), Server>>

UdpCmd(scr, dir) ==
    <<"iperf3", "-c", Server, "-p", ToString(Port), "-u", "-t", ToString(Duration),
      "-b", UdpBandwidth>> \o
    (IF dir = "download" THEN <<IF scr = V23 THEN "--reverse" ELSE "-R">> ELSE << >>)

TcpCmd(scr, dir) ==
    <<"iperf3", "-c", Server, "-p", ToString(Port), "-t", ToString(Duration)>> \o
    (IF dir = "download" THEN <<IF scr = V23 THEN "--reverse" ELSE "-R">> ELSE << >>)

Cmd(scr, dir, phase) ==
    IF phase = "udp" THEN UdpCmd(scr, dir)
    ELSE IF phase = "tcp" THEN TcpCmd(scr, dir)
    ELSE PingCmd

\* what run_and_save returns when the wait times out
TimeoutText(scr, cmd) ==
    IF scr = V23
    THEN "ERROR: Command '" \o Repr(cmd) \o "' timed out"
    ELSE "ERROR: Command '" \o Repr(cmd) \o "' timed out after " \o
         ToString(Duration + Margin) \o " seconds"

\* what run_and_save of performance_test.2.2.bak.py returns when the tool
\* cannot be started (str() of the FileNotFoundError)
SpawnErrorText(cmd) ==
    "ERROR: [Errno 2] No such file or directory: '" \o Head(cmd) \o "'"

(***************************************************************************)
(* Tool output. The scripts read text that ping and iperf3 print; the      *)
(* captures below are that text for the outcomes a run can meet.           *)
(***************************************************************************)
\* the statistics line of ping when `recv` of 3 probes were answered;
\* iputils prints the loss as an integer, the BSD ping with one decimal
PingLossLine(flavor, recv, lossText) ==
    IF flavor = "linux"
    THEN "3 packets transmitted, " \o ToString(recv) \o " received, " \o lossText \o
         "% packet loss, time 2003ms\n"
    ELSE "3 packets transmitted, " \o ToString(recv) \o " packets received, " \o lossText \o
         "% packet loss\n"

PingRttLine(flavor, avg) ==
    IF flavor = "linux"
    THEN "rtt min/avg/max/mdev = 1.0/" \o avg \o "/4.0/0.3 ms\n"
    ELSE "round-trip min/avg/max/stddev = 1.0/" \o avg \o "/4.0/0.3 ms\n"

PingHead == "PING 10.0.0.1 (10.0.0.1): 56 data bytes\n"

PingReply == "64 bytes from 10.0.0.1: icmp_seq=1 ttl=64 time=2.5 ms\n"

PingStatsHead == "--- 10.0.0.1 ping statistics ---\n"

\* the loss percentage ping prints when `lost` of 3 probes got no answer:
\* truncated to an integer by iputils, rounded to one decimal by the BSD ping
LossText(flavor, lost) ==
    LET tenths == (2 * lost * 1000 + 3) \div 6
    IN  IF flavor = "linux" THEN ToString((lost * 100) \div 3)
        ELSE ToString(tenths \div 10) \o "." \o ToString(tenths % 10)

\* the statistics block a ping prints when it ends
PingStats(flavor, lost) ==
    PingStatsHead \o PingLossLine(flavor, 3 - lost, LossText(flavor, lost)) \o
    (IF lost < 3 THEN PingRttLine(flavor, "2.5") ELSE "")

\* stdout of the reachability probe  ping -c 3
ReachOutput(flavor, lost) == PingHead \o PingStats(flavor, lost)

\* what a bounded ping leaves in its file when it ran to its end: replies and
\* statistics, or only an error line
PingCaptures(flavor) ==
    {PingHead \o PingReply \o PingStats(flavor, 0),
     "ping: sendto: Network is unreachable\n"}

\* what a killed ping has written: it prints statistics only when it ends
PingPartials == {PingHead \o PingReply}

IperfHead == "Connecting to host 10.0.0.1, port 5201\n"

IperfInterval == "[  5]   0.00-1.00   sec   128 KBytes  1.05 Mbits/sec\n"

\* a summary line of iperf3: each part is the text printed, "" when absent
IperfLine(l) ==
    "[  5]   0.00-10.00  sec  1.19 GBytes" \o
    (IF l.bw = "" THEN "" ELSE "  " \o l.bw) \o
    (IF l.jitter = "" THEN "" ELSE "  " \o l.jitter) \o
    (IF l.loss = "" THEN "" ELSE "  1/881 " \o l.loss) \o
    (IF l.role = "" THEN "" ELSE "  " \o l.role) \o "\n"

RECURSIVE IperfLines(_)
IperfLines(ls) == IF Len(ls) = 0 THEN "" ELSE IperfLine(Head(ls)) \o IperfLines(Tail(ls))

Line(role, bw, jitter, loss) == [role |-> role, bw |-> bw, jitter |-> jitter, loss |-> loss]

\* the UDP report of the run model: sender then receiver, as iperf3 prints them
UdpCaptures ==
    {IperfHead \o IperfInterval \o
       IperfLines(<<Line("sender", "900 Mbits/sec", "0.00 ms", "(0%)"),
                    Line("receiver", "850 Mbits/sec", "0.45 ms", "(0.1%)")>>)}

\* the TCP report of the run model
TcpCaptures ==
    {IperfHead \o IperfInterval \o
       IperfLines(<<Line("sender", "941 Mbits/sec", "", ""),
                    Line("receiver", "938 Mbits/sec", "", "")>>)}

\* what a killed iperf3 has written
IperfPartials == {IperfHead \o IperfInterval}

Captures(flavor, phase) ==
    IF phase = "udp" THEN UdpCaptures
    ELSE IF phase = "tcp" THEN TcpCaptures
    ELSE PingCaptures(flavor)

Partials(phase) == IF phase \in {"udp", "tcp"} THEN IperfPartials ELSE PingPartials

(***************************************************************************)
(* State                                                                   *)
(***************************************************************************)
VARIABLES
    script,       \* which of the two scripts runs
    direction,    \* args.direction
    os_mode,      \* the platform tag the script parses ping output by
    flavor,       \* the ping installed on the host: "linux" (iputils) or "bsd"
    pc,           \* the statement the script is at, or how it ended
    proc,         \* the child process of each phase
    file,         \* the text in each phase's capture file under /tmp
    reachable,    \* stdout of the reachability probe
    output,       \* what run_and_save returned for each bounded phase
    m,            \* status and the metric variables that go into the summary
    log,          \* the lines this run appended to iperf_summary.log
    outcome,      \* how each phase's tool ended (kept for the properties)
    lost,         \* probes of the reachability check that got no answer
    given         \* the input an extractor was handed (extractor specification)

vars == <<script, direction, os_mode, flavor, pc, proc, file, reachable, output,
          m, log, outcome, lost, given>>

Phases == {"base", "live", "udp", "tcp", "post"}

\* the phases run through run_and_save with a timeout
Bounded == {"base", "udp", "tcp", "post"}

Ended == {"exit0", "exit1", "crashed"}

\* everything that starts a tool: the phases, the reachability probe, check_mtu
Steps == Phases \cup {"reach", "mtu"}

\* every metric starts as the sentinel; status is set by the reachability check
NoMetrics ==
    [status |-> "", base_lat |-> Sentinel, base_loss |-> Sentinel,
     live_lat |-> Sentinel, live_loss |-> Sentinel,
     post_lat |-> Sentinel, post_loss |-> Sentinel,
     udp_bw |-> Sentinel, udp_jitter |-> Sentinel, udp_loss |-> Sentinel,
     tcp_bw |-> Sentinel]

NoInput == [kind |-> "none"]

\* OS detection: platform.system() is "Darwin" where the BSD ping is installed.
\* The run model leaves --os-mode to detection; the extractor specification
\* below also hands the extractors text of the other platform.
DetectedOs(fl) == IF fl = "bsd" THEN "MacOS" ELSE "Linux"

Init ==
    /\ script \in {V23, V22}
    /\ direction \in {"upload", "download"}
    /\ flavor \in {"linux", "bsd"}
    /\ os_mode = IF script = V23 THEN Capitalize(DetectedOs(flavor)) ELSE DetectedOs(flavor)
    /\ pc = "reach"
    /\ proc = [p \in Phases |-> "none"]
    /\ file = [p \in Phases |-> ""]
    /\ reachable = ""
    /\ output = [p \in Bounded |-> ""]
    /\ m = NoMetrics
    /\ log = << >>
    /\ outcome = [p \in Steps |-> "none"]
    /\ lost = 0
    /\ given = NoInput

\* the summary line of performance_test.py
SummaryLine(r) ==
    Timestamp \o " STATUS=" \o r.status \o " SERVER=" \o Server \o ":" \o ToString(Port) \o
    " DURATION=" \o ToString(Duration) \o "s " \o
    "LATENCY=" \o r.base_lat \o " PING_LOSS=" \o r.base_loss \o " " \o
    "LIVE_LAT=" \o r.live_lat \o " LIVE_LOSS=" \o r.live_loss \o " " \o
    "POST_LAT=" \o r.post_lat \o " POST_LOSS=" \o r.post_loss \o " " \o
    "UDP_BW=" \o r.udp_bw \o " UDP_JITTER=" \o r.udp_jitter \o " UDP_LOSS=" \o r.udp_loss \o " " \o
    "TCP_BW=" \o r.tcp_bw

\* the summary line of performance_test.2.2.bak.py
SummaryLineBak(r) ==
    Timestamp \o " STATUS=" \o r.status \o " SERVER=" \o Server \o ":" \o ToString(Port) \o
    " DURATION=" \o ToString(Duration) \o "s " \o
    "LATENCY=" \o r.base_lat \o " PING_LOSS=" \o r.base_loss \o " " \o
    "UDP_BW=" \o r.udp_bw \o " UDP_JITTER=" \o r.udp_jitter \o " UDP_LOSS=" \o r.udp_loss \o " " \o
    "TCP_BW=" \o r.tcp_bw

(***************************************************************************)
(* The run. pc names the statement the script is at; a step is one         *)
(* statement, or one way a tool can end.                                   *)
(***************************************************************************)
\* replies the live ping writes before the model stops counting them
MaxLiveReplies == 1

\* where the script goes when run_and_save returns for a bounded phase
AfterRun(scr, phase) ==
    IF scr = V23
    THEN CASE phase = "base" -> "base_parse"
           [] phase = "udp" -> "tcp_start"
           [] phase = "tcp" -> "terminate"
           [] phase = "post" -> "parse_live"
    ELSE CASE phase = "base" -> "base_parse"
           [] phase = "udp" -> "parse_udp"
           [] phase = "tcp" -> "parse_tcp"

\* Initial Ping Check that goes on to the summary when the status is FAIL
ReachabilityNoExit ==
    /\ pc = "reach"
    /\ script = V23
    /\ \/ /\ pc' = "crashed"
          /\ outcome' = [outcome EXCEPT !["reach"] = "failed"]
          /\ UNCHANGED <<reachable, m, lost>>
       \/ \E k \in 0..3 :
             /\ lost' = k
             /\ reachable' = ReachOutput(flavor, k)
             /\ m' = [m EXCEPT !.status = ReachStatus(reachable')]
             /\ outcome' = [outcome EXCEPT !["reach"] = "ok"]
             /\ pc' = IF m'.status = "FAIL" THEN "summary" ELSE "base_start"
    /\ UNCHANGED <<script, direction, os_mode, flavor, proc, file, output, log, given>>

\* Initial Ping Check of performance_test.py: subprocess.run is not guarded,
\* and a FAIL status leaves through sys.exit(1)
Reachability ==
    /\ pc = "reach"
    /\ script = V23
    /\ \/ /\ pc' = "crashed"
          /\ outcome' = [outcome EXCEPT !["reach"] = "failed"]
          /\ UNCHANGED <<reachable, m, lost>>
       \/ \E k \in 0..3 :
             /\ lost' = k
             /\ reachable' = ReachOutput(flavor, k)
             /\ m' = [m EXCEPT !.status = ReachStatus(reachable')]
             /\ outcome' = [outcome EXCEPT !["reach"] = "ok"]
             /\ pc' = IF m'.status = "FAIL" THEN "exit1" ELSE "base_start"
    /\ UNCHANGED <<script, direction, os_mode, flavor, proc, file, output, log, given>>

\* Reachability Check of performance_test.2.2.bak.py: any exception of the
\* name lookup or of the probe leaves ping_status False; status starts FAIL
ReachabilityBak ==
    /\ pc = "reach"
    /\ script = V22
    /\ \/ /\ m' = [m EXCEPT !.status = "FAIL"]
          /\ outcome' = [outcome EXCEPT !["reach"] = "failed"]
          /\ pc' = "summary"
          /\ UNCHANGED <<reachable, lost>>
       \/ \E k \in 0..3 :
             /\ lost' = k
             /\ reachable' = ReachOutput(flavor, k)
             /\ m' = [m EXCEPT !.status = ReachStatusBak(reachable')]
             /\ outcome' = [outcome EXCEPT !["reach"] = "ok"]
             /\ pc' = IF m'.status = "OK" THEN "mtu" ELSE "summary"
    /\ UNCHANGED <<script, direction, os_mode, flavor, proc, file, output, log, given>>

\* check_mtu of performance_test.2.2.bak.py: an unguarded subprocess.run whose
\* result only prints a warning
CheckMtu ==
    /\ pc = "mtu"
    /\ \/ /\ pc' = "base_start"
          /\ outcome' = [outcome EXCEPT !["mtu"] = "ok"]
       \/ /\ pc' = "crashed"
          /\ outcome' = [outcome EXCEPT !["mtu"] = "failed"]
    /\ UNCHANGED <<script, direction, os_mode, flavor, proc, file, reachable, output,
                   m, log, lost, given>>

\* run_and_save returning as soon as the tool is started, without waiting for it
StartPhaseNoWait(phase) ==
    /\ pc = phase \o "_start"
    /\ file' = [file EXCEPT ![phase] = ""]
    /\ proc' = [proc EXCEPT ![phase] = "running"]
    /\ pc' = AfterRun(script, phase)
    /\ UNCHANGED <<script, direction, os_mode, flavor, reachable, output, m, log,
                   outcome, lost, given>>

\* run_and_save up to the start of the tool: the file is opened for writing and
\* the tool started. performance_test.py lets a failure to start escape;
\* performance_test.2.2.bak.py returns it as an ERROR text.
StartPhase(phase) ==
    /\ pc = phase \o "_start"
    /\ file' = [file EXCEPT ![phase] = ""]
    /\ \/ /\ proc' = [proc EXCEPT ![phase] = "running"]
          /\ pc' = phase \o "_wait"
          /\ UNCHANGED <<output, outcome>>
       \/ /\ outcome' = [outcome EXCEPT ![phase] = "failed"]
          /\ IF script = V23
             THEN pc' = "crashed" /\ UNCHANGED output
             ELSE /\ pc' = AfterRun(script, phase)
                  /\ output' = [output EXCEPT ![phase] =
                                   SpawnErrorText(Cmd(script, direction, phase))]
          /\ UNCHANGED proc
    /\ UNCHANGED <<script, direction, os_mode, flavor, reachable, m, log, lost, given>>

\* the tool ends within duration + 30 seconds: run_and_save returns the file's text
FinishPhase(phase) ==
    /\ pc = phase \o "_wait"
    /\ \E c \in Captures(flavor, phase) :
          /\ file' = [file EXCEPT ![phase] = c]
          /\ output' = [output EXCEPT ![phase] = c]
    /\ proc' = [proc EXCEPT ![phase] = "exited"]
    /\ outcome' = [outcome EXCEPT ![phase] = "ok"]
    /\ pc' = AfterRun(script, phase)
    /\ UNCHANGED <<script, direction, os_mode, flavor, reachable, m, log, lost, given>>

\* the wait times out and nothing catches TimeoutExpired
TimeoutPhaseUnhandled(phase) ==
    /\ pc = phase \o "_wait"
    /\ outcome' = [outcome EXCEPT ![phase] = "timeout"]
    /\ pc' = "crashed"
    /\ UNCHANGED <<script, direction, os_mode, flavor, proc, file, reachable, output,
                   m, log, lost, given>>

\* the wait times out: the tool is killed and run_and_save returns an ERROR text
TimeoutPhase(phase) ==
    /\ pc = phase \o "_wait"
    /\ \E c \in Partials(phase) : file' = [file EXCEPT ![phase] = c]
    /\ output' = [output EXCEPT ![phase] =
                     TimeoutText(script, Cmd(script, direction, phase))]
    /\ proc' = [proc EXCEPT ![phase] = "killed"]
    /\ outcome' = [outcome EXCEPT ![phase] = "timeout"]
    /\ pc' = AfterRun(script, phase)
    /\ UNCHANGED <<script, direction, os_mode, flavor, reachable, m, log, lost, given>>

\* run_and_save(..., live=True): the ping is started and its handle returned
StartLive ==
    /\ pc = "live_start"
    /\ file' = [file EXCEPT !["live"] = ""]
    /\ \/ /\ proc' = [proc EXCEPT !["live"] = "running"]
          /\ pc' = "udp_start"
          /\ UNCHANGED outcome
       \/ /\ outcome' = [outcome EXCEPT !["live"] = "failed"]
          /\ pc' = "crashed"
          /\ UNCHANGED proc
    /\ UNCHANGED <<script, direction, os_mode, flavor, reachable, output, m, log, lost, given>>

LiveAlive == proc["live"] \in {"running", "signalled"}

\* the live ping, a process of its own, writes a reply into its file
LiveWrite ==
    /\ LiveAlive
    /\ Len(file["live"]) < Len(PingHead) + MaxLiveReplies * Len(PingReply)
    /\ file' = [file EXCEPT !["live"] =
                   (IF file["live"] = "" THEN PingHead ELSE file["live"]) \o PingReply]
    /\ UNCHANGED <<script, direction, os_mode, flavor, pc, proc, reachable, output,
                   m, log, outcome, lost, given>>

\* the live ping ends, on the signal or by itself, with or without having
\* printed its statistics
LiveExit ==
    /\ LiveAlive
    /\ \E tail \in {"", PingStats(flavor, 0)} :
          file' = [file EXCEPT !["live"] = file["live"] \o tail]
    /\ outcome' = [outcome EXCEPT !["live"] =
                      IF proc["live"] = "signalled" THEN "terminated" ELSE "ok"]
    /\ proc' = [proc EXCEPT !["live"] = "exited"]
    /\ UNCHANGED <<script, direction, os_mode, flavor, pc, reachable, output,
                   m, log, lost, given>>

\* live_ping.terminate(): the signal is sent and the script goes on
TerminateLive ==
    /\ pc = "terminate"
    /\ proc' = [proc EXCEPT !["live"] = IF @ = "running" THEN "signalled" ELSE @]
    /\ pc' = "post_start"
    /\ UNCHANGED <<script, direction, os_mode, flavor, file, reachable, output,
                   m, log, outcome, lost, given>>

\* base_lat, base_loss = parse_ping(ping_tmp): the file is parsed, whatever
\* run_and_save returned
ParseBaseline ==
    /\ pc = "base_parse"
    /\ script = V23
    /\ LET r == ParsePing(file["base"], os_mode)
       IN  m' = [m EXCEPT !.base_lat = r[1], !.base_loss = r[2]]
    /\ pc' = "live_start"
    /\ UNCHANGED <<script, direction, os_mode, flavor, proc, file, reachable, output,
                   log, outcome, lost, given>>

\* performance_test.2.2.bak.py parses what run_and_save returned
ParseBaselineBak ==
    /\ pc = "base_parse"
    /\ script = V22
    /\ LET r == ParsePingBak(output["base"], os_mode)
       IN  m' = [m EXCEPT !.base_lat = r[1], !.base_loss = r[2]]
    /\ pc' = "udp_start"
    /\ UNCHANGED <<script, direction, os_mode, flavor, proc, file, reachable, output,
                   log, outcome, lost, given>>

\* live_lat, live_loss = parse_ping(ping_live_tmp): reads the file as it is now
ParseLive ==
    /\ pc = "parse_live"
    /\ LET r == ParsePing(file["live"], os_mode)
       IN  m' = [m EXCEPT !.live_lat = r[1], !.live_loss = r[2]]
    /\ pc' = "parse_post"
    /\ UNCHANGED <<script, direction, os_mode, flavor, proc, file, reachable, output,
                   log, outcome, lost, given>>

\* post_lat, post_loss = parse_ping(ping_post_tmp)
ParsePost ==
    /\ pc = "parse_post"
    /\ LET r == ParsePing(file["post"], os_mode)
       IN  m' = [m EXCEPT !.post_lat = r[1], !.post_loss = r[2]]
    /\ pc' = "parse_udp"
    /\ UNCHANGED <<script, direction, os_mode, flavor, proc, file, reachable, output,
                   log, outcome, lost, given>>

\* Parse UDP
ExtractUdp ==
    /\ pc = "parse_udp"
    /\ LET r == IF script = V23 THEN ParseUdp(output["udp"])
                ELSE ParseUdpBak(output["udp"], direction)
       IN  m' = [m EXCEPT !.udp_bw = r[1], !.udp_jitter = r[2], !.udp_loss = r[3]]
    /\ pc' = IF script = V23 THEN "parse_tcp" ELSE "tcp_start"
    /\ UNCHANGED <<script, direction, os_mode, flavor, proc, file, reachable, output,
                   log, outcome, lost, given>>

\* Parse TCP
ExtractTcp ==
    /\ pc = "parse_tcp"
    /\ m' = [m EXCEPT !.tcp_bw = IF script = V23 THEN ParseTcp(output["tcp"])
                                 ELSE ParseTcpBak(output["tcp"])]
    /\ pc' = "summary"
    /\ UNCHANGED <<script, direction, os_mode, flavor, proc, file, reachable, output,
                   log, outcome, lost, given>>

\* Summary: the line is appended to the summary log, and the script ends
WriteSummary ==
    /\ pc = "summary"
    /\ log' = Append(log, (IF script = V23 THEN SummaryLine(m) ELSE SummaryLineBak(m)) \o "\n")
    /\ pc' = "exit0"
    /\ UNCHANGED <<script, direction, os_mode, flavor, proc, file, reachable, output,
                   m, outcome, lost, given>>

Next ==
    \/ Reachability
    \/ ReachabilityBak
    \/ CheckMtu
    \/ \E phase \in Bounded : StartPhase(phase)
    \/ \E phase \in Bounded : FinishPhase(phase)
    \/ \E phase \in Bounded : TimeoutPhase(phase)
    \/ StartLive
    \/ LiveWrite
    \/ LiveExit
    \/ TerminateLive
    \/ ParseBaseline
    \/ ParseBaselineBak
    \/ ParseLive
    \/ ParsePost
    \/ ExtractUdp
    \/ ExtractTcp
    \/ WriteSummary

Spec == Init /\ [][Next]_vars

(***************************************************************************)
(* The extractors on their own: Init hands one of them a capture, built    *)
(* from the parts it is made of, and the step applies the script's parsing *)
(* code to its text.                                                       *)
(***************************************************************************)
\* lines of an iperf3 report an extractor is handed at most
MaxLines == 3

\* bandwidth texts with a magnitude and a prefixed unit, as iperf3 prints a rate
PrefixedBw == {"900 Mbits/sec", "850 Mbits/sec", "1.02 Gbits/sec", "941 Mbits/sec",
               "938 Mbits/sec"}

CarriesBandwidth(l) == l.bw \in PrefixedBw

UdpLineSet ==
    {Line("sender", "900 Mbits/sec", "0.00 ms", "(0%)"),
     Line("receiver", "850 Mbits/sec", "0.45 ms", "(0.1%)"),
     Line("receiver", "1.02 Gbits/sec", "0.012 ms", "(0%)"),
     Line("receiver", "0.00 bits/sec", "0.00 ms", "(0%)"),
     Line("", "1.05 Mbits/sec", "", "")}

TcpLineSet ==
    {Line("sender", "941 Mbits/sec", "", ""),
     Line("receiver", "938 Mbits/sec", "", ""),
     Line("receiver", "850 Mbits/sec", "", ""),
     Line("receiver", "0.00 bits/sec", "", ""),
     Line("", "1.05 Mbits/sec", "", "")}

\* the sequences over S of length at most n
SeqsUpTo(S, n) == UNION {[1..k -> S] : k \in 0..n}

\* a ping capture: what precedes the statistics, the loss percentage printed
\* ("" for no loss line), the flavor of the latency line ("" for none), its avg
PingInputs ==
    [noise : {"", PingHead \o PingReply, "ping: sendto: Network is unreachable\n"},
     loss : {"", "0", "100", "33.3"},
     label : {"", "linux", "bsd"},
     avg : {"2.5", "12.345"}]

PingText(p) ==
    p.noise \o
    (IF p.loss = "" THEN "" ELSE PingLossLine(IF p.label = "" THEN "linux" ELSE p.label, 3, p.loss)) \o
    (IF p.label = "" THEN "" ELSE PingRttLine(p.label, p.avg))

NoPing == [noise |-> "", loss |-> "", label |-> "", avg |-> "2.5"]

\* receiver lines with each of bandwidth, jitter and loss present or absent; the
\* line without a prefixed-unit bandwidth still reads "bits/sec"
UdpPartialLines ==
    {Line("receiver", bw, jitter, loss) :
        bw \in {"850 Mbits/sec", "0.00 bits/sec"},
        jitter \in {"0.45 ms", ""},
        loss \in {"(0.1%)", ""}}

ExtractInputs ==
    {[kind |-> "udp", ping |-> NoPing,
      lines |-> <<Line("sender", "900 Mbits/sec", "0.00 ms", "(0%)"), l>>] : l \in UdpPartialLines} \cup
    {[kind |-> "ping", ping |-> p, lines |-> << >>] : p \in PingInputs} \cup
    {[kind |-> "udp", ping |-> NoPing, lines |-> ls] : ls \in SeqsUpTo(UdpLineSet, MaxLines)} \cup
    {[kind |-> "tcp", ping |-> NoPing, lines |-> ls] : ls \in SeqsUpTo(TcpLineSet, MaxLines)}

ExtractInit ==
    /\ script \in {V23, V22}
    /\ given \in ExtractInputs
    /\ direction \in (IF given.kind = "ping" THEN {"upload"} ELSE {"upload", "download"})
    /\ \E tag \in (IF given.kind = "ping" THEN {"Linux", "MacOS"} ELSE {"Linux"}) :
          os_mode = IF script = V23 THEN Capitalize(tag) ELSE tag
    /\ flavor = "linux"
    /\ pc = "extract"
    /\ proc = [p \in Phases |-> "none"]
    /\ file = [p \in Phases |-> ""]
    /\ reachable = ""
    /\ output = [p \in Bounded |-> ""]
    /\ m = NoMetrics
    /\ log = << >>
    /\ outcome = [p \in Steps |-> "none"]
    /\ lost = 0

\* the latency extractor applied to the capture
ExtractPingStep ==
    /\ pc = "extract"
    /\ given.kind = "ping"
    /\ LET r == IF script = V23 THEN ParsePing(PingText(given.ping), os_mode)
                ELSE ParsePingBak(PingText(given.ping), os_mode)
       IN  m' = [m EXCEPT !.base_lat = r[1], !.base_loss = r[2]]
    /\ pc' = "extracted"
    /\ UNCHANGED <<script, direction, os_mode, flavor, proc, file, reachable, output,
                   log, outcome, lost, given>>

\* the UDP extractor applied to the capture
ExtractUdpStep ==
    /\ pc = "extract"
    /\ given.kind = "udp"
    /\ LET r == IF script = V23 THEN ParseUdp(IperfLines(given.lines))
                ELSE ParseUdpBak(IperfLines(given.lines), direction)
       IN  m' = [m EXCEPT !.udp_bw = r[1], !.udp_jitter = r[2], !.udp_loss = r[3]]
    /\ pc' = "extracted"
    /\ UNCHANGED <<script, direction, os_mode, flavor, proc, file, reachable, output,
                   log, outcome, lost, given>>

\* the TCP extractor applied to the capture
ExtractTcpStep ==
    /\ pc = "extract"
    /\ given.kind = "tcp"
    /\ m' = [m EXCEPT !.tcp_bw = IF script = V23 THEN ParseTcp(IperfLines(given.lines))
                                 ELSE ParseTcpBak(IperfLines(given.lines))]
    /\ pc' = "extracted"
    /\ UNCHANGED <<script, direction, os_mode, flavor, proc, file, reachable, output,
                   log, outcome, lost, given>>

ExtractNext == ExtractPingStep \/ ExtractUdpStep \/ ExtractTcpStep

ExtractSpec == ExtractInit /\ [][ExtractNext]_vars

(***************************************************************************)
(* Properties                                                              *)
(***************************************************************************)
\* the line of a FAIL record: status FAIL and every metric the sentinel
FailLine(scr) ==
    IF scr = V23 THEN SummaryLine([NoMetrics EXCEPT !.status = "FAIL"])
    ELSE SummaryLineBak([NoMetrics EXCEPT !.status = "FAIL"])

\* s ends with a line break
NewlineTerminated(s) == Len(s) >= 1 /\ CharAt(s, Len(s)) = "\n"

\* the loss percentage of a 3-packet probe of which `k` got no answer
LossPct(k) == (k * 100) \div 3

\* C1: every run of performance_test.py that has ended, however it ended, has
\* appended exactly one newline-terminated line to the summary log.
C1_ExactlyOneSummaryLine ==
    (script = V23 /\ pc \in Ended) =>
        /\ Len(log) = 1
        /\ NewlineTerminated(log[1])

\* C2: once the reachability check has failed no phase's tool is ever started,
\* and the run ends having emitted one record, with STATUS=FAIL and every
\* measurement field equal to the sentinel.
C2_AbortedEmitsFailRecord ==
    (pc # "reach" /\ m.status = "FAIL") =>
        /\ \A p \in Phases : proc[p] = "none"
        /\ pc \in Ended => (Len(log) = 1 /\ log[1] = FailLine(script) \o "\n")

\* C3: when the probe reported a loss percentage, STATUS is OK exactly when
\* that percentage is at most 1 (0%, or the tolerance band up to 1%).
C3_OkIffLossWithinThreshold ==
    outcome["reach"] = "ok" => (m.status = "OK" <=> LossPct(lost) <= 1)

\* the metric fields a phase fills
FieldsOf(phase) ==
    CASE phase = "base" -> {"base_lat", "base_loss"}
      [] phase = "live" -> {"live_lat", "live_loss"}
      [] phase = "post" -> {"post_lat", "post_loss"}
      [] phase = "udp" -> {"udp_bw", "udp_jitter", "udp_loss"}
      [] phase = "tcp" -> {"tcp_bw"}
      [] OTHER -> {}

\* the line the script writes for the metrics it holds
LineOf(scr, r) == (IF scr = V23 THEN SummaryLine(r) ELSE SummaryLineBak(r)) \o "\n"

\* C8: a tool that cannot be started, in any phase, never ends the run as an
\* unhandled fault: the run goes on, and when it has ended it has written its
\* summary line, in which the fields of that phase are the sentinel.
C8_InvocationFailureDegrades ==
    \A p \in Steps :
        outcome[p] = "failed" =>
            /\ pc # "crashed"
            /\ pc \in Ended =>
                  /\ Len(log) = 1
                  /\ log[1] = LineOf(script, m)
                  /\ \A f \in FieldsOf(p) : m[f] = Sentinel

\* C10: the live ping's capture file is not read for extraction while the live
\* ping may still be running: whenever the script is at
\* parse_ping(ping_live_tmp), the live ping has exited.
C10_LiveReadAfterExit == pc = "parse_live" => ~LiveAlive

\* positions of the lines of a report that are labelled `role` and carry a bandwidth
Carrying(ls, role) == {i \in DOMAIN ls : ls[i].role = role /\ CarriesBandwidth(ls[i])}

\* every labelled line of the report carries a bandwidth
AllCarry(ls) == \A i \in DOMAIN ls : ls[i].role # "" => CarriesBandwidth(ls[i])

\* C5: for a UDP capture with a sender line and a receiver line, each carrying
\* a bandwidth, UDP_BW is the sender line's bandwidth when direction=download
\* and the receiver line's when direction=upload. (Stated for the captures
\* with one such line of each label, and no labelled line without a bandwidth.)
C5_UdpLineByDirection ==
    (/\ pc = "extracted"
     /\ given.kind = "udp"
     /\ AllCarry(given.lines)
     /\ Cardinality(Carrying(given.lines, "sender")) = 1
     /\ Cardinality(Carrying(given.lines, "receiver")) = 1) =>
        LET label == IF direction = "download" THEN "sender" ELSE "receiver"
            i == CHOOSE j \in Carrying(given.lines, label) : TRUE
        IN  m.udp_bw = given.lines[i].bw

\* C6: for a TCP capture with two or more receiver lines carrying a bandwidth,
\* TCP_BW is the bandwidth of the first of them.
C6_TcpFirstValidMatchWins ==
    (/\ pc = "extracted"
     /\ given.kind = "tcp"
     /\ Cardinality(Carrying(given.lines, "receiver")) >= 2) =>
        m.tcp_bw = given.lines[MinOf(Carrying(given.lines, "receiver"))].bw

\* C7: parse_ping of performance_test.py takes its latency rule from os_mode
\* alone. Tag Linux on a capture with the "rtt min/avg/max/mdev" line gives
\* avg + "ms"; tag MacOS on a capture with the "round-trip min/avg/max/stddev"
\* line gives avg + "ms"; a capture with no quadruple, the empty one included,
\* gives the sentinel; and tag Linux does not read the round-trip line, whose
\* shape alone would have allowed it.
C7_PingRuleByTag ==
    (pc = "extracted" /\ given.kind = "ping" /\ script = V23) =>
        LET p == given.ping
        IN  /\ (os_mode = "Linux" /\ p.label = "linux") => m.base_lat = p.avg \o "ms"
            /\ (os_mode # "Linux" /\ p.label = "bsd") => m.base_lat = p.avg \o "ms"
            /\ p.label = "" => m.base_lat = Sentinel
            /\ (os_mode = "Linux" /\ p.label = "bsd") => m.base_lat = Sentinel

\* C7 happens: the MacOS tag read the avg of a round-trip line, and the
\* extractor has returned for the empty capture
C7_Witness ==
    /\ pc = "extracted"
    /\ given.kind = "ping"
    /\ script = V23
    /\ os_mode = "Macos"
    /\ given.ping.label = "bsd"
    /\ given.ping.avg = "12.345"
    /\ m.base_lat = "12.345ms"

\* the tokens of a summary line, split at single spaces
Tokens(line) == SplitSpaces(SubSeq(line, 1, Len(line) - 1))

\* the keys of the summary line, in the order written
Keys(scr) ==
    IF scr = V23
    THEN <<"STATUS=", "SERVER=", "DURATION=", "LATENCY=", "PING_LOSS=", "LIVE_LAT=",
           "LIVE_LOSS=", "POST_LAT=", "POST_LOSS=", "UDP_BW=", "UDP_JITTER=", "UDP_LOSS=",
           "TCP_BW=">>
    ELSE <<"STATUS=", "SERVER=", "DURATION=", "LATENCY=", "PING_LOSS=",
           "UDP_BW=", "UDP_JITTER=", "UDP_LOSS=", "TCP_BW=">>

\* a unit of bandwidth standing alone: one word character and bits/sec
IsUnit(w) == Len(w) = 9 /\ IsWord(CharAt(w, 1)) /\ SubSeq(w, 2, 9) = "bits/sec"

IsBwField(w) == StartsWithAt(w, 1, "UDP_BW=") \/ StartsWithAt(w, 1, "TCP_BW=")

\* the tokens without the unit that follows a bandwidth field's magnitude
RECURSIVE DropUnits(_)
DropUnits(t) ==
    IF Len(t) = 0 THEN << >>
    ELSE IF Len(t) >= 2 /\ IsBwField(t[1]) /\ IsUnit(t[2])
         THEN <<t[1]>> \o DropUnits(SubSeq(t, 3, Len(t)))
         ELSE <<t[1]>> \o DropUnits(Tail(t))

\* the number of bandwidth metrics that hold a parsed value
ParsedBandwidths == (IF m.udp_bw = Sentinel THEN 0 ELSE 1) + (IF m.tcp_bw = Sentinel THEN 0 ELSE 1)

\* C4 as claimed: every summary line splits at single spaces into the
\* timestamp and one token per field (14 tokens in performance_test.py), no
\* field value holding a space.
C4_OneTokenPerField ==
    \A i \in DOMAIN log : Len(Tokens(log[i])) = Len(Keys(script)) + 1

\* C4 amended: every summary line is the timestamp and the key=value fields in
\* their order, separated by single spaces; the only values that hold a space
\* are UDP_BW and TCP_BW when a bandwidth was parsed, each then a magnitude,
\* one space and the unit, so that the line has one token more for each.
C4_OneTokenPerFieldButBandwidth ==
    \A i \in DOMAIN log :
        LET t == Tokens(log[i])
            u == DropUnits(t)
            k == Keys(script)
        IN  /\ Len(u) = Len(k) + 1
            /\ u[1] = Timestamp
            /\ \A j \in DOMAIN k : StartsWithAt(u[j + 1], 1, k[j]) /\ Len(u[j + 1]) > Len(k[j])
            /\ Len(t) = Len(u) + ParsedBandwidths

\* C4 happens: performance_test.py wrote a line with a parsed UDP bandwidth
C4_Witness ==
    /\ script = V23
    /\ Len(log) = 1
    /\ m.udp_bw = "850 Mbits/sec"
    /\ m.tcp_bw = "938 Mbits/sec"
    /\ Len(Tokens(log[1])) = 16

\* the phases a script runs once the target is reachable
RunPhases(scr) == IF scr = V23 THEN Phases ELSE {"base", "udp", "tcp"}

\* the metrics a phase's extractor gives on the capture in the phase's file
Extracted(scr, phase) ==
    LET ping == IF scr = V23 THEN ParsePing(file[phase], os_mode)
                ELSE ParsePingBak(file[phase], os_mode)
        udp == IF scr = V23 THEN ParseUdp(file["udp"]) ELSE ParseUdpBak(file["udp"], direction)
        tcp == IF scr = V23 THEN ParseTcp(file["tcp"]) ELSE ParseTcpBak(file["tcp"])
    IN  CASE phase = "base" -> [base_lat |-> ping[1], base_loss |-> ping[2]]
          [] phase = "post" -> [post_lat |-> ping[1], post_loss |-> ping[2]]
          [] phase = "udp" -> [udp_bw |-> udp[1], udp_jitter |-> udp[2], udp_loss |-> udp[3]]
          [] phase = "tcp" -> [tcp_bw |-> tcp]

\* C9: a bounded phase that timed out fails alone. Its process was killed and
\* its fields are the sentinel; the timeout does not end the run (a run that
\* crashed had a tool that could not be started); a run in which every tool
\* started ends normally; and a run that ended normally has gone through every
\* phase and written its one summary line, in which the fields of the phases that did not time out are what
\* their captures hold.
C9_TimeoutFailsOnePhase ==
    \A p \in Bounded :
        outcome[p] = "timeout" =>
            /\ proc[p] = "killed"
            /\ \A f \in FieldsOf(p) : m[f] = Sentinel
            /\ pc = "crashed" => \E q \in Steps : outcome[q] = "failed"
            /\ (pc \in Ended /\ \A q \in Steps : outcome[q] # "failed") => pc = "exit0"
            /\ pc = "exit0" =>
                  /\ \A q \in RunPhases(script) : proc[q] # "none" \/ outcome[q] = "failed"
                  /\ Len(log) = 1
                  /\ log[1] = LineOf(script, m)
                  /\ \A q \in Bounded \ {p} :
                        outcome[q] = "ok" =>
                            LET e == Extracted(script, q)
                            IN  \A f \in FieldsOf(q) : m[f] = e[f]

\* C9 happens: the UDP test of performance_test.py timed out, the TCP test
\* after it ran and was parsed, and the summary line was written
C9_Witness ==
    /\ script = V23
    /\ pc = "exit0"
    /\ outcome["udp"] = "timeout"
    /\ outcome["base"] = "timeout"
    /\ outcome["tcp"] = "ok"
    /\ outcome["post"] = "ok"
    /\ m.tcp_bw = "938 Mbits/sec"
    /\ m.post_lat = "2.5ms"
    /\ Len(log) = 1

\* a phase is over: its tool exited, or was killed on timeout, or could not
\* be started and run_and_save returned the error
Finished(phase) == proc[phase] \in {"exited", "killed"} \/ outcome[phase] = "failed"

\* a phase's tool was started
Started(phase) == proc[phase] # "none"

\* a phase's tool is a live process
Alive(phase) == proc[phase] \in {"running", "signalled"}

\* the statements of performance_test.py after live_ping.terminate()
AfterTerminate ==
    {"post_start", "post_wait", "parse_live", "parse_post", "parse_udp", "parse_tcp",
     "summary", "exit0"}

\* the live ping was told to stop
ToldToStop ==
    \/ proc["live"] = "signalled"
    \/ outcome["live"] = "terminated"
    \/ (script = V23 /\ pc \in AfterTerminate)

\* C11: the phases of a run occur in order. The baseline ping has finished
\* before the live ping starts; the live ping is started before the UDP test;
\* the UDP test has finished before the TCP test starts; the TCP test has
\* finished before the live ping is told to stop; the post-test ping starts
\* only after that. The UDP and TCP tests never run at the same time, and of
\* any two tools alive at once one is the live ping.
C11_PhaseOrder ==
    /\ Started("live") => Finished("base")
    /\ (script = V23 /\ Started("udp")) => Started("live")
    /\ Started("udp") => Finished("base")
    /\ Started("tcp") => Finished("udp")
    /\ ToldToStop => Finished("tcp")
    /\ Started("post") => (ToldToStop /\ ~(proc["live"] = "running"))
    /\ ~(Alive("udp") /\ Alive("tcp"))
    /\ \A p, q \in Phases : (p # q /\ Alive(p) /\ Alive(q)) => "live" \in {p, q}

\* C11 happens: the TCP test runs beside the live ping, after the baseline
\* ping and the UDP test have finished
C11_Witness ==
    /\ script = V23
    /\ proc["tcp"] = "running"
    /\ proc["live"] = "running"
    /\ proc["udp"] = "killed"
    /\ proc["base"] = "exited"

\* C12: no background work is orphaned. However the script ends, no tool it
\* started is left running: each has exited, was killed, or at least has been
\* sent the stop signal.
C12_NoOrphanAtExit ==
    pc \in Ended => \A p \in Phases : proc[p] # "running"

\* the digits that stand directly before "% packet loss" in a printed
\* percentage: all of "100", the "3" after the point of "33.3"
DigitsBeforePercent(t) ==
    LET dots == {i \in 1..Len(t) : CharAt(t, i) = "."}
    IN  IF dots = {} THEN t ELSE SubSeq(t, MaxOf(dots) + 1, Len(t))

\* the latency the tag's rule finds in a ping capture: the Linux rule reads
\* only the rtt line, the other rule reads either line
LatencyByTag(p, os) ==
    IF p.label = "" \/ (os = "Linux" /\ p.label = "bsd") THEN Sentinel
    ELSE p.avg \o "ms"

\* C13: latency and packet loss are two independent match attempts. The loss
\* returned is the digits before "% packet loss" plus "%" whenever the capture
\* holds a loss line, and the sentinel when it holds none, whether or not a
\* latency was found; the latency returned is what the tag's rule finds,
\* whether or not a loss line is present.
C13_LossAndLatencyIndependent ==
    (pc = "extracted" /\ given.kind = "ping") =>
        LET p == given.ping
        IN  /\ m.base_loss = IF p.loss = "" THEN Sentinel
                             ELSE DigitsBeforePercent(p.loss) \o "%"
            /\ m.base_lat = LatencyByTag(p, os_mode)

\* C13 happens: parse_ping of performance_test.py returned a loss for a
\* capture in which it found no latency
C13_Witness ==
    /\ pc = "extracted"
    /\ given.kind = "ping"
    /\ script = V23
    /\ given.ping.loss = "100"
    /\ given.ping.label = ""
    /\ m.base_loss = "100%"
    /\ m.base_lat = Sentinel

\* positions of the lines of a report that performance_test.py may select:
\* labelled receiver and reading "bits/sec"
ReceiverLines(ls) ==
    {i \in DOMAIN ls : ls[i].role = "receiver" /\ Contains(ls[i].bw, "bits/sec")}

\* a jitter as the summary carries it: the printed "0.45 ms" without the space
JitterField(t) == SubSeq(t, 1, Len(t) - 3) \o "ms"

\* a loss as the summary carries it: the printed "(0.1%)" without the brackets
LossField(t) == SubSeq(t, 2, Len(t) - 1)

\* C14: on the UDP line performance_test.py selects, bandwidth, jitter and
\* loss are extracted independently. Each field is the parsed value when its
\* own text is on the line and the sentinel when it is not, whatever the
\* other two are; and the line with 850 Mbits/sec, 0.45 ms and (0.1%) gives a
\* summary line that reads UDP_BW=850 Mbits/sec UDP_JITTER=0.45ms UDP_LOSS=0.1%.
C14_UdpFieldsIndependent ==
    (/\ pc = "extracted"
     /\ given.kind = "udp"
     /\ script = V23
     /\ ReceiverLines(given.lines) # {}) =>
        LET l == given.lines[MinOf(ReceiverLines(given.lines))]
        IN  /\ m.udp_bw = IF CarriesBandwidth(l) THEN l.bw ELSE Sentinel
            /\ m.udp_jitter = IF l.jitter = "" THEN Sentinel ELSE JitterField(l.jitter)
            /\ m.udp_loss = IF l.loss = "" THEN Sentinel ELSE LossField(l.loss)
            /\ (l.bw = "850 Mbits/sec" /\ l.jitter = "0.45 ms" /\ l.loss = "(0.1%)") =>
                  Contains(SummaryLine(m), "UDP_BW=850 Mbits/sec UDP_JITTER=0.45ms UDP_LOSS=0.1%")

\* C14 happens: a partial success, the jitter found on a selected line on
\* which neither bandwidth nor loss was
C14_Witness ==
    /\ pc = "extracted"
    /\ given.kind = "udp"
    /\ script = V23
    /\ Len(given.lines) = 2
    /\ given.lines[2] = Line("receiver", "0.00 bits/sec", "0.45 ms", "")
    /\ m.udp_bw = Sentinel
    /\ m.udp_jitter = "0.45ms"
    /\ m.udp_loss = Sentinel

\* C15: performance_test.py writes its summary only with status OK. Whenever
\* it is at the Summary block or past it the status is OK, and every line it
\* has appended to the summary log reads STATUS=OK and not STATUS=FAIL.
C15_OnlyOkIsWritten ==
    script = V23 =>
        /\ pc \in {"summary", "exit0"} => m.status = "OK"
        /\ \A i \in DOMAIN log :
              /\ Contains(log[i], " STATUS=OK ")
              /\ ~Contains(log[i], "STATUS=FAIL")

\* C15 happens: performance_test.py has ended having appended its line
C15_Witness ==
    /\ script = V23
    /\ pc = "exit0"
    /\ Len(log) = 1
    /\ Contains(log[1], " STATUS=OK ")

\* C16: in performance_test.py the UDP and the TCP extraction each examine one
\* line only, the first that reads both "receiver" and "bits/sec". The fields
\* are what that line holds, and the sentinel for what it does not hold, even
\* when a later receiver line carries a valid bandwidth; a report without such
\* a line leaves every field the sentinel.
C16_FirstReceiverLineOnly ==
    (pc = "extracted" /\ script = V23 /\ given.kind \in {"udp", "tcp"}) =>
        LET hits == ReceiverLines(given.lines)
            l == given.lines[MinOf(hits)]
        IN  IF given.kind = "udp"
            THEN IF hits = {}
                 THEN m.udp_bw = Sentinel /\ m.udp_jitter = Sentinel /\ m.udp_loss = Sentinel
                 ELSE /\ m.udp_bw = IF CarriesBandwidth(l) THEN l.bw ELSE Sentinel
                      /\ m.udp_jitter = IF l.jitter = "" THEN Sentinel ELSE JitterField(l.jitter)
                      /\ m.udp_loss = IF l.loss = "" THEN Sentinel ELSE LossField(l.loss)
            ELSE IF hits = {}
                 THEN m.tcp_bw = Sentinel
                 ELSE m.tcp_bw = IF CarriesBandwidth(l) THEN l.bw ELSE Sentinel

\* C16 happens: the first receiver line of a TCP report reads 0.00 bits/sec,
\* a later one carries 938 Mbits/sec, and TCP_BW stayed the sentinel
C16_Witness ==
    /\ pc = "extracted"
    /\ script = V23
    /\ given.kind = "tcp"
    /\ Len(given.lines) >= 2
    /\ given.lines[1] = Line("receiver", "0.00 bits/sec", "", "")
    /\ given.lines[2] = Line("receiver", "938 Mbits/sec", "", "")
    /\ m.tcp_bw = Sentinel

====
